---- MODULE Spec2Model ----
(***************************************************************************)
(* A model of the two reference-promotion pipelines of gitlab-fork-cli:    *)
(*   - PerformGitOperation (src/pkg/gitops.go), the go-git pipeline behind *)
(*     the `clone` sub-command, with its helper checkRemoteRefExistence;   *)
(*   - the shell pipeline of src/unnamed/part_001 (steps 3 to 10).         *)
(* Remote repositories are maps from full reference names to commits; a    *)
(* working directory holds a local repository (references, remote entries, *)
(* shallow or full history).  Every remote call and every fallible file    *)
(* system call may fail; the failure is an input chosen by the environment.*)
(***************************************************************************)
EXTENDS Integers, Sequences, FiniteSets, TLC

VARIABLES remote, wd, op, now, runs, lookup

vars == <<remote, wd, op, now, runs, lookup>>

(***************************************************************************)
(* Bounds of the model.                                                    *)
(***************************************************************************)
\* number of operations started one after the other
MaxRuns == 2
\* the clock (seconds, as read by `date +%s`) shows 0 to MaxTime
MaxTime == 1
\* a group of the project-hosting API holds at most MaxProjects projects
MaxProjects == 4
\* the projects of one page of a listing (listOptions.PerPage, 100 in the code)
PerPage == 2

(***************************************************************************)
(* Commits and their history.  C1 is the parent of C2; C0 is unrelated.    *)
(***************************************************************************)
Commits == {"C0", "C1", "C2"}

NoCommit == "none"

IsAncestor(a, b) == a = b \/ (a = "C1" /\ b = "C2")

(***************************************************************************)
(* Reference names.  A full name refs/<kind>/<short> is the tuple          *)
(* <<"refs", kind, short>>.                                                *)
(***************************************************************************)
NewTagReferenceName(n) == <<"refs", "tags", n>>

NewBranchReferenceName(n) == <<"refs", "heads", n>>

\* fmt.Sprintf("refs/remotes/origin/%s", n)
RemoteTrackingName(n) == <<"refs", "remotes/origin", n>>

IsTag(r) == r[2] = "tags"

IsBranch(r) == r[2] = "heads"

Short(r) == r[3]

NoRefs == [r \in {} |-> NoCommit]

Restrict(f, S) == [r \in (DOMAIN f) \cap S |-> f[r]]

TagsOf(f) == Restrict(f, {r \in DOMAIN f : IsTag(r)})

(***************************************************************************)
(* RefType (gitops.go, iota constants).                                    *)
(***************************************************************************)
RefTypeUnknown == 0
RefTypeTag == 1
RefTypeBranch == 2

(***************************************************************************)
(* checkRemoteRefExistence, after the reference list has been fetched:     *)
(* the tags and the branches of the list are collected by short name, the  *)
(* tag list is searched first, then the branch list.                       *)
(***************************************************************************)
BranchFirstRefExistence(refs, refName) ==
    LET tags == {Short(r) : r \in {x \in DOMAIN refs : IsTag(x)}}
        branches == {Short(r) : r \in {x \in DOMAIN refs : ~IsTag(x) /\ IsBranch(x)}}
    IN  IF refName \in branches THEN RefTypeBranch
        ELSE IF refName \in tags THEN RefTypeTag
        ELSE RefTypeUnknown

checkRemoteRefExistence(refs, refName) ==
    LET tags == {Short(r) : r \in {x \in DOMAIN refs : IsTag(x)}}
        branches == {Short(r) : r \in {x \in DOMAIN refs : ~IsTag(x) /\ IsBranch(x)}}
    IN  IF refName \in tags THEN RefTypeTag
        ELSE IF refName \in branches THEN RefTypeBranch
        ELSE RefTypeUnknown

(***************************************************************************)
(* The repositories of the model.                                          *)
(***************************************************************************)
SrcURL == "src"

DstURLs == {"dstA", "dstB"}

URLs == {SrcURL} \cup DstURLs

\* the reference names a request may carry (--from-ref)
FromRefs == {"v1", "main", "dev"}

\* --to-tag: absent ("") or an override
ToTags == {"", "v2"}

\* --on-tag-exists
Policies == {"error", "skip"}

Dirs == {"d1"}

\* TARGET_MAIN_BRANCH of the shell pipeline
TARGET_MAIN_BRANCH == "main"

SrcRepos ==
    { [refs |-> NewTagReferenceName("v1") :> "C1" @@ NewTagReferenceName("v2") :> "C2"
                @@ NewBranchReferenceName("main") :> "C2"
                @@ NewBranchReferenceName("dev") :> "C1",
       head |-> "main"],
      [refs |-> NewTagReferenceName("v1") :> "C1"
                @@ NewBranchReferenceName("v1") :> "C2"
                @@ NewBranchReferenceName("main") :> "C1"
                @@ <<"refs", "notes", "dev">> :> "C0",
       head |-> "main"] }

DstRepos ==
    { [refs |-> NoRefs, head |-> ""],
      [refs |-> NewBranchReferenceName("main") :> "C0", head |-> "main"],
      [refs |-> NewBranchReferenceName("main") :> "C1", head |-> "main"],
      [refs |-> NewBranchReferenceName("main") :> "C0" @@ NewTagReferenceName("v1") :> "C1",
       head |-> "main"],
      [refs |-> NewBranchReferenceName("main") :> "C0" @@ NewTagReferenceName("v1") :> "C0",
       head |-> "main"] }

(***************************************************************************)
(* Working directories.                                                    *)
(***************************************************************************)
NoDir == [exists |-> FALSE, refs |-> NoRefs, remotes |-> [n \in {} |-> ""], shallow |-> FALSE]

(***************************************************************************)
(* One operation: the request, the locals of the pipeline, and a record of *)
(* what the run has done so far (the fields from `injected` on); remote0   *)
(* is the state of the remotes when the run started, lastFault the answer  *)
(* of the latest fallible call, pushErr the error of the publishing push.  *)
(***************************************************************************)
IdleOp ==
    [pc |-> "idle", impl |-> "none",
     fromRef |-> "", toTag |-> "", policy |-> "", toURL |-> "", dir |-> "",
     refType |-> RefTypeUnknown, commit |-> NoCommit, refSpecs |-> {},
     tempLocal |-> "", remoteTemp |-> "", mainExists |-> FALSE,
     outcome |-> "none", reason |-> "",
     injected |-> FALSE, reused |-> FALSE, cloneAttempted |-> FALSE,
     remoteRegistered |-> FALSE, pushAttempted |-> FALSE, uploaded |-> FALSE,
     pubAttempted |-> FALSE, pubURL |-> "", ephCreated |-> "", recheckName |-> "",
     remote0 |-> [u \in {} |-> NoDir], rerun |-> FALSE,
     lastFault |-> "ok", pushErr |-> "none", cleanupFailed |-> FALSE]

Procs == {1}

\* no listing of a group is under way
NoLookup ==
    [pc |-> "idle", cmd |-> "none", group |-> << >>, projectName |-> "",
     Page |-> 0, id |-> 0, err |-> "", listed |-> 0, allProjects |-> << >>]

\* whether the request [impl, fromRef, toTag, toURL, dir] repeats the run that
\* o has just ended, that run having cloned afresh and succeeded undisturbed
Repeats(o, impl, fromRef, toTag, toURL, dir) ==
    /\ o.pc = "done" /\ o.outcome = "Success" /\ ~o.injected /\ ~o.reused
    /\ o.impl = impl /\ o.fromRef = fromRef /\ o.toTag = toTag
    /\ o.toURL = toURL /\ o.dir = dir

Ended(o, outcome, reason) == [o EXCEPT !.pc = "done", !.outcome = outcome, !.reason = reason]

Faulted(o, fault) == [o EXCEPT !.injected = @ \/ fault # "ok", !.lastFault = fault]

Quiet == \A q \in Procs : op[q].pc \in {"idle", "done"}

Init ==
    /\ \E s \in SrcRepos, d \in DstRepos :
          remote = [u \in URLs |-> IF u = SrcURL THEN s
                                   ELSE IF u = "dstA" THEN d
                                   ELSE [refs |-> NoRefs, head |-> ""]]
    /\ wd = [d \in Dirs |-> NoDir]
    /\ op = [p \in Procs |-> IdleOp]
    /\ now = 0
    /\ runs = 0
    /\ lookup = NoLookup

(***************************************************************************)
(* Pushes.  A ref-spec evaluated against the local repository gives a set  *)
(* of updates [dst, new]; the commands of a push are the updates whose     *)
(* destination does not already hold the new commit.                       *)
(***************************************************************************)
Cmds(dstRefs, updates) ==
    {u \in updates : ~(u.dst \in DOMAIN dstRefs /\ dstRefs[u.dst] = u.new)}

ApplyCmds(dstRefs, cmds) ==
    [r \in (DOMAIN dstRefs) \cup {u.dst : u \in cmds} |->
        IF \E u \in cmds : u.dst = r
        THEN (CHOOSE u \in cmds : u.dst = r).new
        ELSE dstRefs[r]]

\* the commits a local repository holds: the whole history, or, after a
\* depth-1 clone, the commits its references point at
HasCommit(repo, c) ==
    ~repo.shallow \/ \E r \in DOMAIN repo.refs : repo.refs[r] = c

\* go-git, ref-spec without "+": a new reference is accepted; an existing one,
\* tag or branch, only when the old commit is found in the local history of
\* the new one, of which a depth-1 clone holds only the fetched tips.
GoFastForward(repo, dstRefs, cmd) ==
    IF cmd.dst \notin DOMAIN dstRefs THEN TRUE
    ELSE IsAncestor(dstRefs[cmd.dst], cmd.new) /\ HasCommit(repo, dstRefs[cmd.dst])

\* git push, ref-spec without "+": a new reference is accepted, an existing
\* tag is never replaced, an existing branch only by a descendant.
GitFastForward(dstRefs, cmd) ==
    IF cmd.dst \notin DOMAIN dstRefs THEN TRUE
    ELSE ~IsTag(cmd.dst) /\ IsAncestor(dstRefs[cmd.dst], cmd.new)

(***************************************************************************)
(* cloneCmd.Run: the request is built from the flags and handed to         *)
(* PerformGitOperation.                                                    *)
(***************************************************************************)
GoStart(p) ==
    /\ op[p].pc \in {"idle", "done"}
    /\ runs < MaxRuns
    /\ \E f \in FromRefs, t \in ToTags, pol \in Policies, u \in DstURLs, d \in Dirs :
          op' = [op EXCEPT ![p] =
                    [IdleOp EXCEPT !.pc = "go_classify", !.impl = "go",
                                   !.fromRef = f, !.toTag = t, !.policy = pol,
                                   !.toURL = u, !.dir = d, !.remote0 = remote,
                                   !.rerun = Repeats(op[p], "go", f, t, u, d)]]
    /\ runs' = runs + 1
    /\ UNCHANGED <<remote, wd, now>>

\* the body of GoClassify when the run goes on after an unresolved reference
GoClassifyNoAbort(p) ==
    /\ op[p].pc = "go_classify"
    /\ \E fault \in {"ok", "fail"} :
          LET o == Faulted(op[p], fault)
              refType == checkRemoteRefExistence(remote[SrcURL].refs, o.fromRef)
          IN  op' = [op EXCEPT ![p] =
                        IF fault = "fail" THEN Ended(o, "Failed", "source-list")
                        ELSE [o EXCEPT !.pc = "go_clone", !.refType = refType]]
    /\ UNCHANGED <<remote, wd, now, runs>>

\* 1. the source reference is classified
GoClassify(p) ==
    /\ op[p].pc = "go_classify"
    /\ \E fault \in {"ok", "fail"} :
          LET o == Faulted(op[p], fault)
              refType == checkRemoteRefExistence(remote[SrcURL].refs, o.fromRef)
          IN  op' = [op EXCEPT ![p] =
                        IF fault = "fail" THEN Ended(o, "Failed", "source-list")
                        ELSE IF refType = RefTypeUnknown
                             THEN Ended([o EXCEPT !.refType = refType], "Failed", "unresolved")
                        ELSE [o EXCEPT !.pc = "go_clone", !.refType = refType]]
    /\ UNCHANGED <<remote, wd, now, runs>>

\* git.PlainClone with Depth 1, SingleBranch and the default tag mode: the
\* requested reference and every tag of the source.
GoCloneRepo(src, refType, name) ==
    [exists |-> TRUE,
     refs |-> IF refType = RefTypeBranch
              THEN TagsOf(src.refs)
                   @@ NewBranchReferenceName(name) :> src.refs[NewBranchReferenceName(name)]
                   @@ RemoteTrackingName(name) :> src.refs[NewBranchReferenceName(name)]
              ELSE TagsOf(src.refs),
     remotes |-> "origin" :> SrcURL,
     shallow |-> TRUE]

\* the body of GoClone when an existing repository is cloned over
GoCloneAlways(p) ==
    /\ op[p].pc = "go_clone"
    /\ \E fault \in {"ok", "fail"} :
          LET o == [Faulted(op[p], fault) EXCEPT !.cloneAttempted = TRUE]
          IN  /\ op' = [op EXCEPT ![p] =
                           IF fault = "fail" THEN Ended(o, "Failed", "clone")
                           ELSE [o EXCEPT !.pc = "go_remote",
                                          !.reused = wd[o.dir].exists]]
              /\ wd' = IF fault = "fail" THEN wd
                       ELSE [wd EXCEPT ![o.dir] =
                                GoCloneRepo(remote[SrcURL], o.refType, o.fromRef)]
    /\ UNCHANGED <<remote, now, runs>>

\* 3. clone, or open the repository the directory already holds
GoClone(p) ==
    /\ op[p].pc = "go_clone"
    /\ \E fault \in {"ok", "fail"} :
          LET o == [Faulted(op[p], fault) EXCEPT !.cloneAttempted = TRUE]
          IN  IF wd[o.dir].exists
              THEN /\ op' = [op EXCEPT ![p] =
                                IF fault = "fail" THEN Ended(o, "Failed", "open")
                                ELSE [o EXCEPT !.pc = "go_remote", !.reused = TRUE]]
                   /\ wd' = wd
              ELSE /\ op' = [op EXCEPT ![p] =
                                IF fault = "fail" THEN Ended(o, "Failed", "clone")
                                ELSE [o EXCEPT !.pc = "go_remote"]]
                   /\ wd' = IF fault = "fail" THEN wd
                            ELSE [wd EXCEPT ![o.dir] =
                                     GoCloneRepo(remote[SrcURL], o.refType, o.fromRef)]
    /\ UNCHANGED <<remote, now, runs>>

\* the body of GoCreateRemote when "target" is given the URL of the source
GoCreateRemoteAtSource(p) ==
    /\ op[p].pc = "go_remote"
    /\ \E fault \in {"ok", "fail"} :
          LET o == [Faulted(op[p], fault) EXCEPT !.remoteRegistered = TRUE]
              local == wd[o.dir]
          IN  /\ op' = [op EXCEPT ![p] =
                           IF fault = "fail" THEN Ended(o, "Failed", "remote")
                           ELSE [o EXCEPT !.pc = "go_refspecs"]]
              /\ wd' = IF fault = "fail" \/ "target" \in DOMAIN local.remotes THEN wd
                       ELSE [wd EXCEPT ![o.dir].remotes = @ @@ "target" :> SrcURL]
    /\ UNCHANGED <<remote, now, runs>>

\* the body of GoCreateRemote when ErrRemoteExists is returned like any error
GoCreateRemoteExistsFatal(p) ==
    /\ op[p].pc = "go_remote"
    /\ \E fault \in {"ok", "fail"} :
          LET o == [Faulted(op[p], fault) EXCEPT !.remoteRegistered = TRUE]
              local == wd[o.dir]
          IN  /\ op' = [op EXCEPT ![p] =
                           IF fault = "fail" \/ "target" \in DOMAIN local.remotes
                           THEN Ended(o, "Failed", "remote")
                           ELSE [o EXCEPT !.pc = "go_refspecs"]]
              /\ wd' = IF fault = "fail" \/ "target" \in DOMAIN local.remotes THEN wd
                       ELSE [wd EXCEPT ![o.dir].remotes = @ @@ "target" :> o.toURL]
    /\ UNCHANGED <<remote, now, runs>>

\* 4. the remote entry "target": created, or the existing entry is taken
GoCreateRemote(p) ==
    /\ op[p].pc = "go_remote"
    /\ \E fault \in {"ok", "fail"} :
          LET o == [Faulted(op[p], fault) EXCEPT !.remoteRegistered = TRUE]
              local == wd[o.dir]
          IN  /\ op' = [op EXCEPT ![p] =
                           IF fault = "fail" THEN Ended(o, "Failed", "remote")
                           ELSE [o EXCEPT !.pc = "go_refspecs"]]
              /\ wd' = IF fault = "fail" \/ "target" \in DOMAIN local.remotes THEN wd
                       ELSE [wd EXCEPT ![o.dir].remotes = @ @@ "target" :> o.toURL]
    /\ UNCHANGED <<remote, now, runs>>

\* the ref-spec when the destination tag is not overridden: every local tag
WildcardTagUpdates(local) ==
    {[dst |-> r, new |-> local.refs[r]] : r \in {x \in DOMAIN local.refs : IsTag(x)}}

\* the local reference whose hash is pushed under an override
GoLocalRef(o) ==
    IF o.refType = RefTypeTag THEN NewTagReferenceName(o.fromRef)
    ELSE RemoteTrackingName(o.fromRef)

\* the ref-spec under an override when it names the source reference instead
GoOverrideIgnored(o, local) ==
    {[dst |-> NewTagReferenceName(o.fromRef), new |-> local.refs[GoLocalRef(o)]]}

\* the ref-spec under an override: the local hash to refs/tags/<ToTag>
GoOverrideUpdates(o, local) ==
    {[dst |-> NewTagReferenceName(o.toTag), new |-> local.refs[GoLocalRef(o)]]}

\* 5. the ref-specs of the push
GoRefSpecs(p) ==
    /\ op[p].pc = "go_refspecs"
    /\ LET o == op[p]
           local == wd[o.dir]
       IN  op' = [op EXCEPT ![p] =
                     IF o.toTag # ""
                     THEN IF GoLocalRef(o) \notin DOMAIN local.refs
                          THEN Ended(o, "Failed", "local-ref")
                          ELSE [o EXCEPT !.pc = "go_push",
                                         !.commit = local.refs[GoLocalRef(o)],
                                         !.refSpecs = GoOverrideUpdates(o, local)]
                     ELSE [o EXCEPT !.pc = "go_push",
                                    !.refSpecs = WildcardTagUpdates(local)]]
    /\ UNCHANGED <<remote, wd, now, runs>>

\* the error handling of the push when the report-status error is an error
\* like any other
GoPushErrorQuirkFatal(o, err) ==
    IF err = "ok" THEN Ended(o, "Success", "")
    ELSE IF err = "uptodate" THEN [o EXCEPT !.pc = "go_recheck"]
    ELSE Ended(o, "Failed", "push")

\* the error handling of the push when every error leads to the conflict check
GoPushErrorAlwaysRechecks(o, err) ==
    IF err = "ok" THEN Ended(o, "Success", "")
    ELSE IF err = "quirk" THEN Ended(o, "Success", "quirk")
    ELSE [o EXCEPT !.pc = "go_recheck"]

\* the error handling of the push: nil, the report-status error that is taken
\* for a success, NoErrAlreadyUpToDate, any other error
GoPushError(o, err) ==
    IF err = "ok" THEN Ended(o, "Success", "")
    ELSE IF err = "quirk" THEN Ended(o, "Success", "quirk")
    ELSE IF err = "uptodate" THEN [o EXCEPT !.pc = "go_recheck"]
    ELSE Ended(o, "Failed", "push")

\* 6. the push, to the URL the remote entry "target" holds: it fails in
\* transport, finds nothing to update, is rejected as not fast-forward, or is
\* applied, its report read or not
GoPush(p) ==
    /\ op[p].pc = "go_push"
    /\ \E fault \in {"ok", "fail", "quirk"} :
          LET local == wd[op[p].dir]
              url == local.remotes["target"]
              cmds == Cmds(remote[url].refs, op[p].refSpecs)
              accepted == \A u \in cmds : GoFastForward(local, remote[url].refs, u)
              err == IF fault = "fail" THEN "other"
                     ELSE IF cmds = {} THEN "uptodate"
                     ELSE IF ~accepted THEN "other"
                     ELSE IF fault = "quirk" THEN "quirk"
                     ELSE "ok"
              o == [Faulted(op[p], fault) EXCEPT !.pushAttempted = TRUE,
                                                 !.pubAttempted = TRUE, !.pubURL = url,
                                                 !.pushErr = err]
          IN  /\ fault = "quirk" => (cmds # {} /\ accepted)
              /\ op' = [op EXCEPT ![p] = GoPushError(o, err)]
              /\ remote' = IF err \in {"ok", "quirk"}
                           THEN [remote EXCEPT ![url].refs = ApplyCmds(@, cmds)]
                           ELSE remote
    /\ UNCHANGED <<wd, now, runs>>

\* the destination name of the conflict check
GoRecheckTag(o) == IF o.toTag = "" THEN o.fromRef ELSE o.toTag

\* the body of GoRecheck when the policy is applied to a branch as well
GoRecheckAnyKind(p) ==
    /\ op[p].pc = "go_recheck"
    /\ \E fault \in {"ok", "fail"} :
          LET tag == GoRecheckTag(op[p])
              o == [Faulted(op[p], fault) EXCEPT !.recheckName = tag]
              refType == checkRemoteRefExistence(remote[o.toURL].refs, tag)
          IN  op' = [op EXCEPT ![p] =
                        IF fault = "fail" THEN Ended(o, "Failed", "dest-list")
                        ELSE IF refType # RefTypeUnknown
                             THEN IF o.policy = "error" THEN Ended(o, "Failed", "conflict")
                                  ELSE IF o.policy = "skip" THEN Ended(o, "Skipped", "")
                                  ELSE Ended(o, "Failed", "policy")
                        ELSE Ended(o, "Failed", "push")]
    /\ UNCHANGED <<remote, wd, now, runs>>

\* NoErrAlreadyUpToDate: the destination is classified and the policy applied
GoRecheck(p) ==
    /\ op[p].pc = "go_recheck"
    /\ \E fault \in {"ok", "fail"} :
          LET tag == GoRecheckTag(op[p])
              o == [Faulted(op[p], fault) EXCEPT !.recheckName = tag]
              refType == checkRemoteRefExistence(remote[o.toURL].refs, tag)
          IN  op' = [op EXCEPT ![p] =
                        IF fault = "fail" THEN Ended(o, "Failed", "dest-list")
                        ELSE IF refType = RefTypeTag
                             THEN IF o.policy = "error" THEN Ended(o, "Failed", "conflict")
                                  ELSE IF o.policy = "skip" THEN Ended(o, "Skipped", "")
                                  ELSE Ended(o, "Failed", "policy")
                        ELSE Ended(o, "Failed", "push")]
    /\ UNCHANGED <<remote, wd, now, runs>>

(***************************************************************************)
(* The shell pipeline (src/unnamed/part_001).                              *)
(***************************************************************************)
\* the destinations the shell pipeline is run for (DEST_REPO_URL)
ShDstURLs == {"dstA"}

\* argument parsing and validation: the request
ShStart(p) ==
    /\ op[p].pc \in {"idle", "done"}
    /\ runs < MaxRuns
    /\ \E f \in FromRefs, u \in ShDstURLs, d \in Dirs :
          op' = [op EXCEPT ![p] =
                    [IdleOp EXCEPT !.pc = "sh_precheck", !.impl = "sh",
                                   !.fromRef = f, !.toURL = u, !.dir = d,
                                   !.remote0 = remote,
                                   !.rerun = Repeats(op[p], "sh", f, "", u, d)]]
    /\ runs' = runs + 1
    /\ UNCHANGED <<remote, wd, now>>

\* 3. an existing clone directory is removed
ShPrecheck(p) ==
    /\ op[p].pc = "sh_precheck"
    /\ IF wd[op[p].dir].exists
       THEN \E fault \in {"ok", "fail"} :
               LET o == Faulted(op[p], fault)
               IN  /\ op' = [op EXCEPT ![p] =
                                IF fault = "fail" THEN Ended(o, "Failed", "rm")
                                ELSE [o EXCEPT !.pc = "sh_clone"]]
                   /\ wd' = IF fault = "fail" THEN wd ELSE [wd EXCEPT ![o.dir] = NoDir]
       ELSE /\ op' = [op EXCEPT ![p].pc = "sh_clone"]
            /\ wd' = wd
    /\ UNCHANGED <<remote, now, runs>>

\* git clone <url> <dir>: every tag, the branch HEAD names as a local branch,
\* every branch as a remote-tracking reference, the whole history
ShCloneRepo(src) ==
    [exists |-> TRUE,
     refs |-> LET heads == {r \in DOMAIN src.refs : IsBranch(r)}
              IN  TagsOf(src.refs)
                  @@ [r \in {NewBranchReferenceName(src.head)} \cap heads |-> src.refs[r]]
                  @@ [r \in {RemoteTrackingName(Short(h)) : h \in heads} |->
                         src.refs[NewBranchReferenceName(Short(r))]],
     remotes |-> "origin" :> SrcURL,
     shallow |-> FALSE]

\* 4. the source is cloned in full
ShClone(p) ==
    /\ op[p].pc = "sh_clone"
    /\ \E fault \in {"ok", "fail"} :
          LET o == [Faulted(op[p], fault) EXCEPT !.cloneAttempted = TRUE]
          IN  /\ op' = [op EXCEPT ![p] =
                           IF fault = "fail" THEN Ended(o, "Failed", "clone")
                           ELSE [o EXCEPT !.pc = "sh_resolve"]]
              /\ wd' = IF fault = "fail" THEN wd
                       ELSE [wd EXCEPT ![o.dir] = ShCloneRepo(remote[SrcURL])]
    /\ UNCHANGED <<remote, now, runs>>

\* 5. REF_TYPE and COMMIT_ID_TO_PUSH from the local repository (git show-ref)
ShResolve(p) ==
    /\ op[p].pc = "sh_resolve"
    /\ LET o == op[p]
           local == wd[o.dir]
           tag == NewTagReferenceName(o.fromRef)
           branch == NewBranchReferenceName(o.fromRef)
       IN  op' = [op EXCEPT ![p] =
                     IF tag \in DOMAIN local.refs
                     THEN [o EXCEPT !.pc = "sh_branch", !.refType = RefTypeTag,
                                    !.commit = local.refs[tag]]
                     ELSE IF branch \in DOMAIN local.refs
                     THEN [o EXCEPT !.pc = "sh_branch", !.refType = RefTypeBranch,
                                    !.commit = local.refs[branch]]
                     ELSE Ended(o, "Failed", "unresolved")]
    /\ UNCHANGED <<remote, wd, now, runs>>

\* TEMP_LOCAL_BRANCH_NAME="temp-mirror-local-$(date +%s)"
TempLocalBranchName(t) == "temp-mirror-local-" \o ToString(t)

\* the temporary remote branch when its name does not carry the time stamp
RemoteTempBranchFixed(tempLocal) == NewBranchReferenceName("mirror-objects-temp")

\* REMOTE_TEMP_BRANCH_FOR_OBJECTS="refs/heads/mirror-objects-${TEMP_LOCAL_BRANCH_NAME}"
RemoteTempBranch(tempLocal) == NewBranchReferenceName("mirror-objects-" \o tempLocal)

\* 6. the local temporary branch at the commit, named after the second the
\* clock shows, which is no earlier than the last one read (git branch fails
\* on a branch that exists)
ShTempBranch(p) ==
    /\ op[p].pc = "sh_branch"
    /\ \E t \in now..MaxTime :
          LET o == op[p]
              name == TempLocalBranchName(t)
          IN  /\ now' = t
              /\ IF NewBranchReferenceName(name) \in DOMAIN wd[o.dir].refs
                 THEN /\ op' = [op EXCEPT ![p] = Ended(o, "Failed", "branch")]
                      /\ wd' = wd
                 ELSE /\ op' = [op EXCEPT ![p] =
                                   [o EXCEPT !.pc = "sh_remote", !.tempLocal = name]]
                      /\ wd' = [wd EXCEPT ![o.dir].refs =
                                   @ @@ NewBranchReferenceName(name) :> o.commit]
    /\ UNCHANGED <<remote, runs>>

\* 7. git remote add destination <url> || git remote set-url destination <url>
ShAddRemote(p) ==
    /\ op[p].pc = "sh_remote"
    /\ LET o == op[p]
       IN  /\ op' = [op EXCEPT ![p] = [o EXCEPT !.pc = "sh_lsremote",
                                                !.remoteRegistered = TRUE]]
           /\ wd' = [wd EXCEPT ![o.dir].remotes =
                        [n \in (DOMAIN @) \cup {"destination"} |->
                            IF n = "destination" THEN o.toURL ELSE @[n]]]
    /\ UNCHANGED <<remote, now, runs>>

\* 8. git ls-remote <url> refs/heads/main | grep -q main: a failed listing
\* prints nothing and reads as "main does not exist"
ShCheckMain(p) ==
    /\ op[p].pc = "sh_lsremote"
    /\ \E fault \in {"ok", "fail"} :
          LET o == Faulted(op[p], fault)
          IN  op' = [op EXCEPT ![p] =
                        [o EXCEPT !.pc = "sh_pushobj",
                                  !.mainExists =
                                      /\ fault = "ok"
                                      /\ NewBranchReferenceName(TARGET_MAIN_BRANCH)
                                            \in DOMAIN remote[o.toURL].refs]]
    /\ UNCHANGED <<remote, wd, now, runs>>

\* one `git push destination <src>:<dst>` of a local commit: the new
\* destination references and whether the push succeeded ("Everything
\* up-to-date" is a success)
GitPush(dstRefs, u, fault) ==
    IF fault = "fail" THEN [ok |-> FALSE, refs |-> dstRefs]
    ELSE IF Cmds(dstRefs, {u}) = {} THEN [ok |-> TRUE, refs |-> dstRefs]
    ELSE IF ~GitFastForward(dstRefs, u) THEN [ok |-> FALSE, refs |-> dstRefs]
    ELSE [ok |-> TRUE, refs |-> ApplyCmds(dstRefs, {u})]

\* the body of ShPushObjects when the exit status of the push is not looked at
ShPushObjectsUnchecked(p) ==
    /\ op[p].pc = "sh_pushobj"
    /\ \E fault \in {"ok", "fail"} :
          LET o == [Faulted(op[p], fault) EXCEPT !.pushAttempted = TRUE]
              url == wd[o.dir].remotes["destination"]
              dst == IF o.mainExists THEN RemoteTempBranch(o.tempLocal)
                     ELSE NewBranchReferenceName(TARGET_MAIN_BRANCH)
              res == GitPush(remote[url].refs, [dst |-> dst, new |-> o.commit], fault)
          IN  /\ remote' = [remote EXCEPT ![url].refs = res.refs]
              /\ op' = [op EXCEPT ![p] =
                           [o EXCEPT !.pc = "sh_pushref",
                                     !.uploaded = res.ok,
                                     !.remoteTemp = IF o.mainExists THEN Short(dst) ELSE "",
                                     !.ephCreated =
                                        IF o.mainExists /\ res.ok
                                           /\ dst \notin DOMAIN remote[url].refs
                                        THEN Short(dst) ELSE ""]]
    /\ UNCHANGED <<wd, now, runs>>

\* the body of ShPushObjects when the temporary remote branch is deleted as
\* soon as it has been pushed
ShPushObjectsDeletesAtOnce(p) ==
    /\ op[p].pc = "sh_pushobj"
    /\ \E fault \in {"ok", "fail"} :
          LET o == [Faulted(op[p], fault) EXCEPT !.pushAttempted = TRUE]
              url == wd[o.dir].remotes["destination"]
              dst == IF o.mainExists THEN RemoteTempBranch(o.tempLocal)
                     ELSE NewBranchReferenceName(TARGET_MAIN_BRANCH)
              res == GitPush(remote[url].refs, [dst |-> dst, new |-> o.commit], fault)
          IN  /\ remote' = [remote EXCEPT ![url].refs =
                               IF res.ok /\ o.mainExists
                               THEN Restrict(res.refs, DOMAIN res.refs \ {dst})
                               ELSE res.refs]
              /\ op' = [op EXCEPT ![p] =
                           IF ~res.ok THEN Ended(o, "Failed", "upload")
                           ELSE [o EXCEPT !.pc = "sh_pushref",
                                          !.uploaded = TRUE,
                                          !.remoteTemp = IF o.mainExists THEN Short(dst) ELSE "",
                                          !.ephCreated =
                                             IF o.mainExists /\ dst \notin DOMAIN remote[url].refs
                                             THEN Short(dst) ELSE ""]]
    /\ UNCHANGED <<wd, now, runs>>

\* 8. the commit objects are pushed: to the temporary remote branch when main
\* exists, onto main when it does not
ShPushObjects(p) ==
    /\ op[p].pc = "sh_pushobj"
    /\ \E fault \in {"ok", "fail"} :
          LET o == [Faulted(op[p], fault) EXCEPT !.pushAttempted = TRUE]
              url == wd[o.dir].remotes["destination"]
              dst == IF o.mainExists THEN RemoteTempBranch(o.tempLocal)
                     ELSE NewBranchReferenceName(TARGET_MAIN_BRANCH)
              res == GitPush(remote[url].refs, [dst |-> dst, new |-> o.commit], fault)
          IN  /\ remote' = [remote EXCEPT ![url].refs = res.refs]
              /\ op' = [op EXCEPT ![p] =
                           IF ~res.ok THEN Ended(o, "Failed", "upload")
                           ELSE [o EXCEPT !.pc = "sh_pushref",
                                          !.uploaded = TRUE,
                                          !.remoteTemp = IF o.mainExists THEN Short(dst) ELSE "",
                                          !.ephCreated =
                                             IF o.mainExists /\ dst \notin DOMAIN remote[url].refs
                                             THEN Short(dst) ELSE ""]]
    /\ UNCHANGED <<wd, now, runs>>

\* 9. the original tag or branch is pushed under its own name
ShPushRef(p) ==
    /\ op[p].pc = "sh_pushref"
    /\ \E fault \in {"ok", "fail"} :
          LET url == wd[op[p].dir].remotes["destination"]
              ref == IF op[p].refType = RefTypeTag THEN NewTagReferenceName(op[p].fromRef)
                     ELSE NewBranchReferenceName(op[p].fromRef)
              res == GitPush(remote[url].refs,
                             [dst |-> ref, new |-> wd[op[p].dir].refs[ref]], fault)
              o == [Faulted(op[p], fault) EXCEPT !.pushAttempted = TRUE,
                                                 !.pubAttempted = TRUE, !.pubURL = url,
                                                 !.pushErr = IF res.ok THEN "ok" ELSE "other"]
          IN  /\ remote' = [remote EXCEPT ![url].refs = res.refs]
              /\ op' = [op EXCEPT ![p] =
                           IF ~res.ok THEN Ended(o, "Failed", "publish")
                           ELSE [o EXCEPT !.pc = "sh_cleanup"]]
    /\ UNCHANGED <<wd, now, runs>>

\* 10. the local temporary branch and, when one was pushed, the remote
\* temporary branch are deleted; a failure is a warning
ShCleanupBranches(p) ==
    /\ op[p].pc = "sh_cleanup"
    /\ \E lfault \in {"ok", "fail"}, rfault \in {"ok", "fail"} :
          LET o == [Faulted(Faulted(op[p], lfault), rfault) EXCEPT
                       !.cleanupFailed = @ \/ lfault = "fail" \/ rfault = "fail"]
              url == wd[o.dir].remotes["destination"]
              temp == NewBranchReferenceName(o.remoteTemp)
          IN  /\ o.remoteTemp = "" => rfault = "ok"
              /\ wd' = IF lfault = "fail" THEN wd
                       ELSE [wd EXCEPT ![o.dir].refs =
                                Restrict(@, DOMAIN @ \ {NewBranchReferenceName(o.tempLocal)})]
              /\ remote' = IF o.remoteTemp = "" \/ rfault = "fail" THEN remote
                           ELSE [remote EXCEPT ![url].refs = Restrict(@, DOMAIN @ \ {temp})]
              /\ op' = [op EXCEPT ![p] = [o EXCEPT !.pc = "sh_rmdir"]]
    /\ UNCHANGED <<now, runs>>

\* the body of ShRemoveDir when a failed removal fails the run
ShRemoveDirFatal(p) ==
    /\ op[p].pc = "sh_rmdir"
    /\ \E fault \in {"ok", "fail"} :
          LET o == [Faulted(op[p], fault) EXCEPT !.cleanupFailed = @ \/ fault = "fail"]
          IN  /\ wd' = IF fault = "fail" THEN wd ELSE [wd EXCEPT ![o.dir] = NoDir]
              /\ op' = [op EXCEPT ![p] =
                           IF fault = "fail" THEN Ended(o, "Failed", "rm")
                           ELSE Ended(o, "Success", "")]
    /\ UNCHANGED <<remote, now, runs>>

\* 10. the clone directory is removed; a failure is a warning
ShRemoveDir(p) ==
    /\ op[p].pc = "sh_rmdir"
    /\ \E fault \in {"ok", "fail"} :
          LET o == [Faulted(op[p], fault) EXCEPT !.cleanupFailed = @ \/ fault = "fail"]
          IN  /\ wd' = IF fault = "fail" THEN wd ELSE [wd EXCEPT ![o.dir] = NoDir]
              /\ op' = [op EXCEPT ![p] = Ended(o, "Success", "")]
    /\ UNCHANGED <<remote, now, runs>>

\* the stages that wait for the answer of a remote (list, clone, push)
RemoteCallStages ==
    {"go_classify", "go_clone", "go_push", "go_recheck",
     "sh_clone", "sh_lsremote", "sh_pushobj", "sh_pushref", "sh_cleanup"}

\* a remote call that never answers: no call carries a deadline, the run waits
Hang(p) ==
    /\ op[p].pc \in RemoteCallStages
    /\ op' = [op EXCEPT ![p] = [Faulted(op[p], "hang") EXCEPT !.pc = "blocked",
                                                              !.reason = op[p].pc]]
    /\ UNCHANGED <<remote, wd, now, runs>>

ShStep(p) ==
    \/ ShPrecheck(p)
    \/ ShClone(p)
    \/ ShResolve(p)
    \/ ShTempBranch(p)
    \/ ShAddRemote(p)
    \/ ShCheckMain(p)
    \/ ShPushObjects(p)
    \/ ShPushRef(p)
    \/ ShCleanupBranches(p)
    \/ ShRemoveDir(p)

GoStep(p) ==
    \/ GoClassify(p)
    \/ GoClone(p)
    \/ GoCreateRemote(p)
    \/ GoRefSpecs(p)
    \/ GoPush(p)
    \/ GoRecheck(p)

Next ==
    \/ \E p \in Procs : Quiet /\ GoStart(p) /\ UNCHANGED lookup
    \/ \E p \in Procs : Quiet /\ ShStart(p) /\ UNCHANGED lookup
    \/ \E p \in Procs : GoStep(p) /\ UNCHANGED lookup
    \/ \E p \in Procs : ShStep(p) /\ UNCHANGED lookup
    \/ \E p \in Procs : Hang(p) /\ UNCHANGED lookup

Spec == Init /\ [][Next]_vars

(***************************************************************************)
(* Two runs of the shell pipeline at once, as two processes: each in a     *)
(* directory of its own, for different source names, towards the same      *)
(* destination, which has its default branch.  Their steps interleave.     *)
(***************************************************************************)
ConcProcs == {1, 2}

ConcDir(p) == IF p = 1 THEN "d1" ELSE "d2"

\* the source names the two processes are asked for
ConcRefs == {"v1", "v2", "main"}

ConcInit ==
    /\ \E s \in SrcRepos, d \in {x \in DstRepos : NewBranchReferenceName(TARGET_MAIN_BRANCH)
                                                      \in DOMAIN x.refs} :
          remote = [u \in URLs |-> IF u = SrcURL THEN s
                                   ELSE IF u = "dstA" THEN d
                                   ELSE [refs |-> NoRefs, head |-> ""]]
    /\ wd = [d \in {ConcDir(p) : p \in ConcProcs} |-> NoDir]
    /\ \E f \in [ConcProcs -> ConcRefs] :
          /\ f[1] # f[2]
          /\ op = [p \in ConcProcs |->
                       [IdleOp EXCEPT !.pc = "sh_precheck", !.impl = "sh",
                                      !.fromRef = f[p], !.toURL = "dstA",
                                      !.dir = ConcDir(p), !.remote0 = remote]]
    /\ now = 0
    /\ runs = 0
    /\ lookup = NoLookup

ConcNext == \E p \in ConcProcs : ShStep(p) /\ UNCHANGED lookup

ConcSpec == ConcInit /\ [][ConcNext]_vars

\* the same two processes towards a destination in any state, with or without
\* its default branch
RaceInit ==
    /\ \E s \in SrcRepos, d \in DstRepos :
          remote = [u \in URLs |-> IF u = SrcURL THEN s
                                   ELSE IF u = "dstA" THEN d
                                   ELSE [refs |-> NoRefs, head |-> ""]]
    /\ wd = [d \in {ConcDir(p) : p \in ConcProcs} |-> NoDir]
    /\ \E f \in [ConcProcs -> ConcRefs] :
          /\ f[1] # f[2]
          /\ op = [p \in ConcProcs |->
                       [IdleOp EXCEPT !.pc = "sh_precheck", !.impl = "sh",
                                      !.fromRef = f[p], !.toURL = "dstA",
                                      !.dir = ConcDir(p), !.remote0 = remote]]
    /\ now = 0
    /\ runs = 0
    /\ lookup = NoLookup

RaceSpec == RaceInit /\ [][ConcNext]_vars

(***************************************************************************)
(* The listings of the project-hosting API (src/cmd/clone.go,              *)
(* src/cmd/list_projects.go).  A group is the sequence of its projects'    *)
(* names, the ID of a project is its position; Groups.ListGroupProjects    *)
(* answers page by page, a request without page number is one for the      *)
(* first page, and NextPage is 0 on the last page.                         *)
(***************************************************************************)
ProjectNames == {"a", "b"}

Groups == UNION {[1..n -> ProjectNames] : n \in 0..MaxProjects}

PageNumber(page) == IF page = 0 THEN 1 ELSE page

\* the IDs of the projects on a page
PageIDs(group, page) ==
    {i \in 1..Len(group) : /\ i > (PageNumber(page) - 1) * PerPage
                           /\ i <= PageNumber(page) * PerPage}

\* resp.NextPage
NextPage(group, page) ==
    IF PageNumber(page) * PerPage < Len(group) THEN PageNumber(page) + 1 ELSE 0

\* the number of pages of a group (an empty group has one, empty, page)
PageCount(group) ==
    IF Len(group) = 0 THEN 1 ELSE (Len(group) + PerPage - 1) \div PerPage

Minimum(S) == CHOOSE x \in S : \A y \in S : x <= y

\* one turn of the loop of findProjectInGroup: the page is listed and searched
\* for the name; the loop ends at a hit, at a failed listing, or when the
\* request carried no page number or the answer names no next page
findProjectInGroup ==
    /\ lookup.pc = "loop" /\ lookup.cmd = "find"
    /\ \E fault \in {"ok", "fail"} :
          LET ids == PageIDs(lookup.group, lookup.Page)
              hits == {i \in ids : lookup.group[i] = lookup.projectName}
              next == NextPage(lookup.group, lookup.Page)
              l == [lookup EXCEPT !.listed = @ + 1]
          IN  lookup' =
                 IF fault = "fail"
                 THEN [lookup EXCEPT !.pc = "done", !.id = -1, !.err = "list"]
                 ELSE IF hits # {}
                 THEN [l EXCEPT !.pc = "done", !.id = Minimum(hits)]
                 ELSE IF lookup.Page = 0 \/ next = 0
                 THEN [l EXCEPT !.pc = "done", !.id = -1, !.err = "notfound"]
                 ELSE [l EXCEPT !.Page = next]
    /\ UNCHANGED <<remote, wd, op, now, runs>>

\* one turn of the loop of listProjectsCmd.Run: the page is appended to
\* allProjects; the loop ends at a failed listing or when the answer names no
\* next page
listProjects ==
    /\ lookup.pc = "loop" /\ lookup.cmd = "list"
    /\ \E fault \in {"ok", "fail"} :
          LET ids == PageIDs(lookup.group, lookup.Page)
              next == NextPage(lookup.group, lookup.Page)
              l == [lookup EXCEPT !.listed = @ + 1,
                                  !.allProjects =
                                      @ \o [k \in 1..Cardinality(ids) |->
                                               lookup.group[Minimum(ids) + k - 1]]]
          IN  lookup' =
                 IF fault = "fail"
                 THEN [lookup EXCEPT !.pc = "done", !.err = "list"]
                 ELSE IF next = 0 THEN [l EXCEPT !.pc = "done"]
                 ELSE [l EXCEPT !.Page = next]
    /\ UNCHANGED <<remote, wd, op, now, runs>>

LookupInit ==
    /\ remote = [u \in URLs |-> [refs |-> NoRefs, head |-> ""]]
    /\ wd = [d \in Dirs |-> NoDir]
    /\ op = [p \in Procs |-> IdleOp]
    /\ now = 0
    /\ runs = 0
    /\ \E g \in Groups, n \in ProjectNames, c \in {"find", "list"} :
          lookup = [NoLookup EXCEPT !.pc = "loop", !.cmd = c, !.group = g,
                                    !.projectName = IF c = "find" THEN n ELSE ""]

LookupNext ==
    \/ findProjectInGroup
    \/ listProjects

LookupSpec == LookupInit /\ [][LookupNext]_vars

(***************************************************************************)
(* Properties.                                                             *)
(***************************************************************************)
\* the kind of the requested name on the source remote
SrcKind(o) == checkRemoteRefExistence(remote[SrcURL].refs, o.fromRef)

\* the destination name of a request: the override, else the source name
DestName(o) == IF o.toTag # "" THEN o.toTag ELSE o.fromRef

\* the commit of the requested reference on the source remote
SrcCommit(o) ==
    IF SrcKind(o) = RefTypeTag THEN remote[SrcURL].refs[NewTagReferenceName(o.fromRef)]
    ELSE IF SrcKind(o) = RefTypeBranch
         THEN remote[SrcURL].refs[NewBranchReferenceName(o.fromRef)]
    ELSE NoCommit

MainRef == NewBranchReferenceName(TARGET_MAIN_BRANCH)

\* the temporary remote branches a repository holds
EphemeralRefs(refs) ==
    {r \in DOMAIN refs : IsBranch(r)
                         /\ \E t \in 0..(MaxTime + 1) :
                               r = RemoteTempBranch(TempLocalBranchName(t))}

\* C1: in every run, the push that publishes the requested reference is
\* attempted only after a push that uploaded the commit objects has succeeded.
C1_UploadBeforePublish ==
    \A p \in Procs : op[p].pubAttempted => op[p].uploaded

\* C2: for every reference list and name, the classifier answers Tag when
\* refs/tags/<name> is listed, else Branch when refs/heads/<name> is listed,
\* else Unknown; PerformGitOperation holds that answer for its source name.
ClassifiedNames == FromRefs \cup {"v2", "absent"}

C2_ClassifierPrecedence ==
    /\ \A u \in URLs, n \in ClassifiedNames :
          LET refs == remote[u].refs
              rt == checkRemoteRefExistence(refs, n)
          IN  IF NewTagReferenceName(n) \in DOMAIN refs THEN rt = RefTypeTag
              ELSE IF NewBranchReferenceName(n) \in DOMAIN refs THEN rt = RefTypeBranch
              ELSE rt = RefTypeUnknown
    /\ \A p \in Procs :
          (op[p].impl = "go" /\ op[p].pc \in {"go_clone", "go_remote", "go_refspecs", "go_push"})
             => LET refs == remote[SrcURL].refs
                    n == op[p].fromRef
                IN  IF NewTagReferenceName(n) \in DOMAIN refs THEN op[p].refType = RefTypeTag
                    ELSE op[p].refType = RefTypeBranch
                         /\ NewBranchReferenceName(n) \in DOMAIN refs

\* C2's case: a run whose source name is listed both as a tag and as a branch
\* has been classified, as a tag.
C2_Witness ==
    \E p \in Procs :
       /\ op[p].impl = "go" /\ op[p].pc = "go_clone" /\ op[p].refType = RefTypeTag
       /\ NewTagReferenceName(op[p].fromRef) \in DOMAIN remote[SrcURL].refs
       /\ NewBranchReferenceName(op[p].fromRef) \in DOMAIN remote[SrcURL].refs

\* C3: a run of PerformGitOperation whose source name is neither a tag nor a
\* branch of the source never attempts a clone, a remote registration or a
\* push, and ends Failed.
C3_UnresolvedAbortsBeforeClone ==
    \A p \in Procs :
       (op[p].impl = "go" /\ SrcKind(op[p]) = RefTypeUnknown)
          => /\ ~op[p].cloneAttempted
             /\ ~op[p].remoteRegistered
             /\ ~op[p].pushAttempted
             /\ op[p].pc \in {"go_classify", "blocked", "done"}
             /\ op[p].pc = "done" => op[p].outcome = "Failed"

\* C3's case: the classifier answered Unknown and the run has ended.
C3_Witness ==
    \E p \in Procs :
       /\ op[p].impl = "go" /\ op[p].pc = "done"
       /\ SrcKind(op[p]) = RefTypeUnknown
       /\ op[p].reason = "unresolved" /\ op[p].outcome = "Failed"

\* C4: a run that promotes a tag to a destination without default branch, no
\* failure injected, ends Success with the default branch and the tag on the
\* destination at the tag's commit and no temporary remote branch.
C4_TagToUninitializedDestination ==
    \A p \in Procs :
       LET o == op[p] IN
       (/\ o.pc = "done" /\ ~o.injected
        /\ SrcKind(o) = RefTypeTag
        /\ MainRef \notin DOMAIN o.remote0[o.toURL].refs)
          => LET dst == remote[o.toURL].refs
                 tag == NewTagReferenceName(DestName(o))
             IN  /\ o.outcome = "Success"
                 /\ MainRef \in DOMAIN dst /\ dst[MainRef] = SrcCommit(o)
                 /\ tag \in DOMAIN dst /\ dst[tag] = SrcCommit(o)
                 /\ EphemeralRefs(dst) = {}

\* C5: a run that promotes a tag to a destination holding only its default
\* branch, at an unrelated commit, no failure injected, ends Success with the
\* tag on the destination at the tag's commit and with a temporary remote
\* branch that the run created and that is gone at the end.
C5_TagViaTemporaryBranch ==
    \A p \in Procs :
       LET o == op[p] IN
       (/\ o.pc = "done" /\ ~o.injected
        /\ SrcKind(o) = RefTypeTag
        /\ DOMAIN o.remote0[o.toURL].refs = {MainRef}
        /\ ~IsAncestor(o.remote0[o.toURL].refs[MainRef], SrcCommit(o))
        /\ ~IsAncestor(SrcCommit(o), o.remote0[o.toURL].refs[MainRef]))
          => LET dst == remote[o.toURL].refs
                 tag == NewTagReferenceName(DestName(o))
             IN  /\ o.outcome = "Success"
                 /\ tag \in DOMAIN dst /\ dst[tag] = SrcCommit(o)
                 /\ o.ephCreated # ""
                 /\ EphemeralRefs(dst) = {}

\* C6: a run for the same tag that follows a run which cloned afresh and ended
\* Success, undisturbed (and under the policy "error" where the pipeline takes
\* a policy), ends Failed, with the tag-exists conflict in PerformGitOperation,
\* and leaves every reference of every remote as it found it.
C6_SecondRunConflicts ==
    \A p \in Procs :
       LET o == op[p] IN
       (/\ o.pc = "done" /\ o.rerun /\ ~o.injected
        /\ o.impl = "go" => o.policy = "error"
        /\ SrcKind(o) = RefTypeTag)
          => /\ o.outcome = "Failed"
             /\ o.impl = "go" => o.reason = "conflict"
             /\ remote = o.remote0

\* C7: a run of PerformGitOperation under the policy "skip" towards a
\* destination that already holds the requested tag, undisturbed, ends Skipped
\* and leaves that tag where it was.
C7_SkipWhenTagExists ==
    \A p \in Procs :
       LET o == op[p]
           tag == NewTagReferenceName(DestName(o))
       IN
       (/\ o.impl = "go" /\ o.pc = "done" /\ ~o.injected
        /\ o.policy = "skip"
        /\ SrcKind(o) = RefTypeTag
        /\ tag \in DOMAIN o.remote0[o.toURL].refs)
          => /\ o.outcome = "Skipped"
             /\ tag \in DOMAIN remote[o.toURL].refs
             /\ remote[o.toURL].refs[tag] = o.remote0[o.toURL].refs[tag]

\* C8: a run whose source name classifies as a branch, without override and
\* undisturbed, ends Success with refs/heads/<name> on the destination at the
\* commit of the source branch.
C8_BranchPublishedUnderSameName ==
    \A p \in Procs :
       LET o == op[p]
           branch == NewBranchReferenceName(o.fromRef)
       IN
       (/\ o.pc = "done" /\ ~o.injected
        /\ SrcKind(o) = RefTypeBranch
        /\ o.toTag = ""
        /\ branch \notin DOMAIN o.remote0[o.toURL].refs)
          => /\ o.outcome = "Success"
             /\ branch \in DOMAIN remote[o.toURL].refs
             /\ remote[o.toURL].refs[branch] = SrcCommit(o)

C10_OneReferencePerOperation ==
    \A p \in Procs :
       LET o == op[p] IN
       o.pc = "done"
          => \A u \in DstURLs :
                (DOMAIN remote[u].refs) \ (DOMAIN o.remote0[u].refs)
                   \subseteq {NewTagReferenceName(DestName(o)),
                              NewBranchReferenceName(o.fromRef), MainRef}

\* C11: when the push of PerformGitOperation returns the report-status error
\* of the transport, the run ends Success, under either policy, and the
\* destination is not classified (the policy is not consulted).
C11_QuirkIsSuccess ==
    \A p \in Procs :
       (op[p].impl = "go" /\ op[p].pushErr = "quirk")
          => /\ op[p].pc = "done"
             /\ op[p].outcome = "Success"
             /\ op[p].recheckName = ""

\* C11's case: the push answered with the report-status error while the
\* destination already held the requested tag, under the policy "error".
C11_Witness ==
    \E q \in Procs :
       /\ op[q].impl = "go" /\ op[q].pushErr = "quirk" /\ op[q].pc = "done"
       /\ op[q].policy = "error"
       /\ NewTagReferenceName(DestName(op[q])) \in DOMAIN op[q].remote0[op[q].toURL].refs

\* C12: a publishing push that returned an error other than "already up to
\* date" and the report-status error ends the run Failed, under either policy.
C12_OtherPushErrorIsFatal ==
    \A p \in Procs :
       op[p].pushErr = "other"
          => /\ op[p].pc = "done"
             /\ op[p].outcome = "Failed"

\* C12's case: under the policy "skip", with the requested tag on the
\* destination, the push was rejected and the run has ended Failed.
C12_Witness ==
    \E p \in Procs :
       /\ op[p].impl = "go" /\ op[p].pushErr = "other" /\ op[p].policy = "skip"
       /\ op[p].lastFault = "ok"
       /\ NewTagReferenceName(DestName(op[p])) \in DOMAIN op[p].remote0[op[p].toURL].refs
       /\ op[p].pc = "done" /\ op[p].outcome = "Failed"

\* the stages whose remote call is fatal when it fails
FatalStages ==
    {"go_classify", "go_clone", "go_push", "go_recheck",
     "sh_clone", "sh_pushobj", "sh_pushref"}

C14_CleanupNeverChangesOutcome ==
    \A p \in Procs :
       /\ (op[p].impl = "sh" /\ op[p].pushErr = "ok" /\ op[p].pc = "done")
             => op[p].outcome = "Success"
       /\ op[p].cleanupFailed
             => /\ op[p].pc \in {"sh_rmdir", "done"}
                /\ op[p].pc = "done" => op[p].outcome = "Success"

\* C14's case: a clean-up action failed and the run has ended.
C14_Witness ==
    \E p \in Procs :
       /\ op[p].impl = "sh" /\ op[p].cleanupFailed
       /\ op[p].pc = "done" /\ op[p].outcome = "Success"

\* C15: once a run that cloned into a directory of its own making has ended,
\* undisturbed, that directory no longer exists.
C15_WorkingDirectoryRemoved ==
    \A p \in Procs :
       LET o == op[p] IN
       (/\ o.pc = "done" /\ ~o.injected
        /\ o.cloneAttempted /\ ~o.reused)
          => ~wd[o.dir].exists

\* what PerformGitOperation returns to its caller: an error, or nil
GoReturn(outcome) == IF outcome = "Failed" THEN "error" ELSE "nil"

\* what cloneCmd.Run makes of it: log.Fatalf, or the line of success
cloneCmdStatus(err) ==
    IF err = "nil" THEN [exit |-> "0", message |-> "success"]
    ELSE [exit |-> "1", message |-> "failure"]

\* C16: a run of the clone command that ends Skipped is reported to the caller
\* differently from one that ends Success, and from one that ends Failed.
C16_ThreeDistinctStatuses ==
    \A p \in Procs :
       (op[p].impl = "go" /\ op[p].pc = "done" /\ op[p].outcome = "Skipped")
          => /\ cloneCmdStatus(GoReturn(op[p].outcome)) # cloneCmdStatus(GoReturn("Success"))
             /\ cloneCmdStatus(GoReturn(op[p].outcome)) # cloneCmdStatus(GoReturn("Failed"))

C19_UnansweredCallTimesOut ==
    \A p \in Procs :
       op[p].pc = "blocked" => ENABLED (GoStep(p) \/ ShStep(p))

\* the reference a run of the shell pipeline publishes
ShPublishedRef(o) ==
    IF SrcKind(o) = RefTypeTag THEN NewTagReferenceName(o.fromRef)
    ELSE NewBranchReferenceName(o.fromRef)

\* the run's reference can be published on the destination as the run found
\* it: it is absent there, or at the same commit, or a branch behind
PublishableAlone(o) ==
    LET ref == ShPublishedRef(o)
        dst == o.remote0[o.toURL].refs
    IN  /\ SrcKind(o) # RefTypeUnknown
        /\ \/ ref \notin DOMAIN dst
           \/ dst[ref] = SrcCommit(o)
           \/ IsBranch(ref) /\ IsAncestor(dst[ref], SrcCommit(o))

\* the two processes have not taken the same name for their temporary branches
Apart == \A p, q \in ConcProcs : (p # q /\ op[p].tempLocal # "") => op[p].tempLocal # op[q].tempLocal

\* C20: of two concurrent runs with different temporary branch names, under
\* every interleaving: the temporary remote branch of a run stays at the run's
\* commit until the run deletes it; and when no failure is injected, each run
\* whose reference is publishable ends Success, and the reference a run has
\* published stays at the run's commit.
C20_ConcurrentRunsDoNotInterfere ==
    Apart =>
       \A p \in ConcProcs :
          LET o == op[p]
              dst == remote[o.toURL].refs
              temp == NewBranchReferenceName(o.remoteTemp)
          IN  /\ (o.pc \in {"sh_pushref", "sh_cleanup"} /\ o.remoteTemp # "")
                    => (temp \in DOMAIN dst /\ dst[temp] = o.commit)
              /\ (\A q \in ConcProcs : ~op[q].injected)
                    => /\ (o.pc = "done" /\ PublishableAlone(o)) => o.outcome = "Success"
                       /\ o.pushErr = "ok"
                             => /\ ShPublishedRef(o) \in DOMAIN dst
                                /\ dst[ShPublishedRef(o)] = o.commit

\* C20's case: both runs have ended Success, undisturbed, each after creating
\* a temporary remote branch of its own, and both references are published.
C20_Witness ==
    /\ DOMAIN op = ConcProcs
    /\ Apart
    /\ \A p \in ConcProcs :
          /\ op[p].pc = "done" /\ op[p].outcome = "Success" /\ ~op[p].injected
          /\ op[p].ephCreated # ""
          /\ ShPublishedRef(op[p]) \notin DOMAIN op[p].remote0["dstA"].refs
          /\ ShPublishedRef(op[p]) \in DOMAIN remote["dstA"].refs

\* C21: two concurrent runs never take the same name for their temporary local
\* branches, nor for their temporary remote branches, also when they read the
\* clock within the same second.
C21_EphemeralNamesUnique ==
    \A p, q \in ConcProcs :
       (p # q /\ op[p].tempLocal # "" /\ op[q].tempLocal # "")
          => /\ op[p].tempLocal # op[q].tempLocal
             /\ RemoteTempBranch(op[p].tempLocal) # RemoteTempBranch(op[q].tempLocal)

\* C22: in the shell pipeline the answer of the query is whether the default
\* branch exists on the destination at that moment; the upload that follows
\* changes the temporary remote branch and nothing else when the branch
\* exists, the default branch and nothing else when it does not; and the
\* clean-up of a run that pushed no temporary remote branch leaves the remotes
\* as they are.
C22_StrategyFollowsDestination ==
    [][\A p \in Procs :
          LET o == op[p]
              n == op'[p]
              changed == {r \in (DOMAIN remote[o.toURL].refs) \cup (DOMAIN remote'[o.toURL].refs) :
                            \/ r \notin DOMAIN remote[o.toURL].refs
                            \/ r \notin DOMAIN remote'[o.toURL].refs
                            \/ remote[o.toURL].refs[r] # remote'[o.toURL].refs[r]}
          IN  /\ (n # o /\ o.pc = "sh_lsremote" /\ n.pc = "sh_pushobj")
                    => n.mainExists = (MainRef \in DOMAIN remote[o.toURL].refs)
              /\ (n # o /\ o.pc = "sh_pushobj")
                    => IF MainRef \in DOMAIN remote[o.toURL].refs
                       THEN changed \subseteq {RemoteTempBranch(o.tempLocal)}
                       ELSE changed \subseteq {MainRef}
              /\ (n # o /\ o.pc = "sh_cleanup" /\ o.remoteTemp = "") => remote' = remote
      ]_vars

\* C23: a run of the shell pipeline is in its clean-up only after its
\* publishing push has succeeded, and while it is between upload and
\* publication some reference of the destination holds the uploaded commit in
\* its history.
C23_CleanupAfterPublish ==
    \A p \in Procs :
       LET o == op[p]
           dst == remote[o.toURL].refs
       IN  /\ (o.impl = "sh" /\ o.pc \in {"sh_cleanup", "sh_rmdir"})
                 => (o.pubAttempted /\ o.pushErr = "ok")
           /\ (o.impl = "sh" /\ o.uploaded /\ ~o.pubAttempted)
                 => \E r \in DOMAIN dst : IsAncestor(o.commit, dst[r])
           /\ (o.impl = "sh" /\ o.ephCreated # "" /\ o.pc \in {"sh_pushref", "sh_cleanup"})
                 => NewBranchReferenceName(o.ephCreated) \in DOMAIN dst

\* C23's case: the run has uploaded to a temporary remote branch of its making,
\* which alone holds the commit on the destination, and has not published yet.
C23_Witness ==
    \E p \in Procs :
       LET dst == remote[op[p].toURL].refs
       IN  /\ op[p].impl = "sh" /\ op[p].pc = "sh_pushref" /\ op[p].ephCreated # ""
           /\ \A r \in DOMAIN dst :
                 IsAncestor(op[p].commit, dst[r]) => r = NewBranchReferenceName(op[p].ephCreated)

\* C24: the registration of the destination remote in a repository that
\* already has an entry of that name, no failure injected, changes no working
\* directory and takes the run to the next stage.
C24_ExistingRemoteReused ==
    [][\A p \in Procs :
          LET o == op[p]
              n == op'[p]
          IN  /\ (/\ n # o /\ o.pc = "go_remote"
                   /\ "target" \in DOMAIN wd[o.dir].remotes /\ n.lastFault = "ok")
                    => (n.pc = "go_refspecs" /\ wd' = wd)
              /\ (/\ n # o /\ o.pc = "sh_remote"
                   /\ "destination" \in DOMAIN wd[o.dir].remotes)
                    => /\ n.pc = "sh_lsremote"
                       /\ DOMAIN wd'[o.dir].remotes = DOMAIN wd[o.dir].remotes
      ]_vars

\* C24's case: PerformGitOperation has gone past the registration in a
\* repository whose entry "target" was made by an earlier run.
C24_Witness ==
    \E p \in Procs :
       /\ op[p].impl = "go" /\ op[p].pc = "go_refspecs"
       /\ op[p].reused /\ op[p].remoteRegistered
       /\ "target" \in DOMAIN wd[op[p].dir].remotes
       /\ wd[op[p].dir].remotes["target"] # op[p].toURL

\* C25: when the push of PerformGitOperation found nothing to update and the
\* destination has been classified, the run ends by the policy (Skipped under
\* "skip", Failed with the conflict under "error") when the name is a tag
\* there, and Failed under either policy when it is a branch or unknown.
C25_PolicyOnlyForTag ==
    \A p \in Procs :
       LET o == op[p] IN
       (/\ o.impl = "go" /\ o.pc = "done"
        /\ o.recheckName # "" /\ o.lastFault = "ok")
          => /\ o.pushErr = "uptodate"
             /\ IF checkRemoteRefExistence(remote[o.toURL].refs, o.recheckName) = RefTypeTag
                THEN /\ o.policy = "skip" => o.outcome = "Skipped"
                     /\ o.policy = "error" => (o.outcome = "Failed" /\ o.reason = "conflict")
                ELSE o.outcome = "Failed" /\ o.reason = "push"

\* C25's case: under "skip" the name of the conflict check was a branch of the
\* destination, and the run has ended Failed.
C25_Witness ==
    \E p \in Procs :
       /\ op[p].impl = "go" /\ op[p].pc = "done" /\ op[p].lastFault = "ok"
       /\ op[p].recheckName # "" /\ op[p].policy = "skip"
       /\ checkRemoteRefExistence(remote[op[p].toURL].refs, op[p].recheckName) = RefTypeBranch
       /\ op[p].outcome = "Failed"

\* C26: findProjectInGroup, its listings answered, returns the ID of a project
\* of the requested name when the group has one on any of its pages, and the
\* not-found error otherwise, after it has listed every page.
C26_FindWalksEveryPage ==
    (lookup.cmd = "find" /\ lookup.pc = "done" /\ lookup.err # "list")
       => IF \E i \in 1..Len(lookup.group) : lookup.group[i] = lookup.projectName
          THEN /\ lookup.err = ""
               /\ lookup.id \in 1..Len(lookup.group)
               /\ lookup.group[lookup.id] = lookup.projectName
          ELSE /\ lookup.err = "notfound" /\ lookup.id = -1
               /\ lookup.listed = PageCount(lookup.group)

\* the reference a run is asked to publish: the tag of the destination name for
\* a source tag or under an override, else the branch of the source name
RequestedRef(o) ==
    IF SrcKind(o) = RefTypeTag \/ o.toTag # "" THEN NewTagReferenceName(DestName(o))
    ELSE NewBranchReferenceName(o.fromRef)

\* C27: when a run has ended Success, the destination of its request holds the
\* requested reference at the commit of the source reference.
C27_SuccessMeansPublished ==
    \A p \in Procs :
       LET o == op[p] IN
       (o.pc = "done" /\ o.outcome = "Success")
          => /\ RequestedRef(o) \in DOMAIN remote[o.toURL].refs
             /\ remote[o.toURL].refs[RequestedRef(o)] = SrcCommit(o)

\* C28: no step of any run moves or deletes a tag that a destination holds.
C28_DestinationTagsNeverMove ==
    [][\A u \in DstURLs :
          \A r \in {x \in DOMAIN remote[u].refs : IsTag(x)} :
             /\ r \in DOMAIN remote'[u].refs
             /\ remote'[u].refs[r] = remote[u].refs[r]
      ]_vars

\* C29: the upload of a run, no failure injected into any run, leaves a default
\* branch that the destination holds at the moment of the push where it is,
\* also when another run has created that branch since the run looked for it.
C29_DefaultBranchNeverMoves ==
    [][\A p \in ConcProcs :
          (/\ op'[p] # op[p] /\ op[p].pc = "sh_pushobj"
           /\ \A q \in ConcProcs : ~op'[q].injected
           /\ MainRef \in DOMAIN remote[op[p].toURL].refs)
             => /\ MainRef \in DOMAIN remote'[op[p].toURL].refs
                /\ remote'[op[p].toURL].refs[MainRef] = remote[op[p].toURL].refs[MainRef]
      ]_vars

\* C30: every push of a run goes to the destination URL of the run's request.
C30_PushTargetsRequestedURL ==
    \A p \in Procs :
       op[p].pubAttempted => op[p].pubURL = op[p].toURL

====
